---- MODULE Spec2Model ----
(***************************************************************************)
(* Admin authorization / moderation routes and the unauthenticated         *)
(* network-abuse routes of server/routes/admin.ts, as a state machine over *)
(* the Firestore collections they read and write.                          *)
(*                                                                         *)
(* Strings are sequences of one-character strings, so that length, charset *)
(* and trimming are computed and not assumed.  An absent (undefined) or    *)
(* empty string field is <<>>: both are falsy in JavaScript and both are   *)
(* rejected by every z.string().min(n) of the file.  An absent number is   *)
(* 0, which is falsy and below every z.number().min(1).  An optional       *)
(* document field is a sequence of length 0 (absent) or 1.                 *)
(*                                                                         *)
(* Every request handler is an async function: the model has one action    *)
(* for the synchronous prefix of a handler (Start...) and one action per   *)
(* awaited call, which performs the call and the synchronous code after it *)
(* up to the next await or the response.                                   *)
(***************************************************************************)
EXTENDS Naturals, Sequences, FiniteSets, Bags, TLC

VARIABLES
  db,         \* the Firestore collections: users, user_bans, ip_bans, licenses, user_ips
  allocated,  \* document ids ever handed out, per auto-id collection
  auditLog,   \* the [ADMIN_ACTION] lines written so far, as a bag
  now,        \* the clock (Timestamp.now(), new Date()), in days
  req         \* per connection: the request in flight or the last one answered

vars == <<db, allocated, auditLog, now, req>>

---------------------------------------------------------------------------
(* Bounds of the model *)

MaxTime == 2
MaxIpBans == 2
MaxUserBans == 1
MaxLicenses == 2
MaxUserIps == 2

---------------------------------------------------------------------------
(* Characters and strings *)

Digits == {"0", "1", "2", "3", "4", "5", "6", "7", "8", "9"}
Lower == {"a", "b", "c", "d", "e", "f", "g", "h", "i", "j", "k", "l", "m",
          "n", "o", "p", "q", "r", "s", "t", "u", "v", "w", "x", "y", "z"}
Upper == {"A", "B", "C", "D", "E", "F", "G", "H", "I", "J", "K", "L", "M",
          "N", "O", "P", "Q", "R", "S", "T", "U", "V", "W", "X", "Y", "Z"}
HexDigits == Digits \cup {"a", "b", "c", "d", "e", "f", "A", "B", "C", "D", "E", "F"}
Whitespace == {" ", "\t", "\n", "\r"}

\* /^[A-Za-z0-9_\-\.]+$/
TokenChars == Upper \cup Lower \cup Digits \cup {"_", "-", "."}

TokenMinLen == 10
TokenMaxLen == 3000
UserIdMinLen == 10
UserIdMaxLen == 100
ReasonMinLen == 5
ReasonMaxLen == 500
DurationMin == 1
DurationMax == 36500
ValidityMin == 1
ValidityMax == 3650
BearerLen == 7

Plans == {"Free", "Classic", "Pro"}

Bearer == <<"B", "e", "a", "r", "e", "r", " ">>

RECURSIVE TrimStart(_)
TrimStart(s) ==
  IF s # <<>> /\ Head(s) \in Whitespace THEN TrimStart(Tail(s)) ELSE s

RECURSIVE TrimEnd(_)
TrimEnd(s) ==
  IF s # <<>> /\ s[Len(s)] \in Whitespace
  THEN TrimEnd(SubSeq(s, 1, Len(s) - 1))
  ELSE s

\* String.prototype.trim
Trim(s) == TrimEnd(TrimStart(s))

\* String.prototype.startsWith
StartsWith(s, prefix) ==
  Len(s) >= Len(prefix) /\ SubSeq(s, 1, Len(prefix)) = prefix

\* String.prototype.slice(n)
Slice(s, n) == SubSeq(s, n + 1, Len(s))

\* s.split(sep), for a one-character separator
RECURSIVE Split(_, _)
Split(s, sep) ==
  IF \E i \in 1..Len(s) : s[i] = sep
  THEN LET i == CHOOSE k \in 1..Len(s) :
                  s[k] = sep /\ \A j \in 1..(k - 1) : s[j] # sep
       IN <<SubSeq(s, 1, i - 1)>> \o Split(SubSeq(s, i + 1, Len(s)), sep)
  ELSE <<s>>

DigitValue(c) == CHOOSE n \in 0..9 : ToString(n) = c

RECURSIVE DecimalValue(_)
DecimalValue(s) ==
  IF s = <<>> THEN 0
  ELSE 10 * DecimalValue(SubSeq(s, 1, Len(s) - 1)) + DigitValue(s[Len(s)])

\* one octet of zod's IPv4 pattern: 25[0-5]|2[0-4][0-9]|1[0-9][0-9]|[1-9][0-9]|[0-9]
IsOctet(s) ==
  /\ Len(s) \in 1..3
  /\ \A i \in 1..Len(s) : s[i] \in Digits
  /\ (Len(s) > 1 => s[1] # "0")
  /\ DecimalValue(s) <= 255

\* z.string().ip({ version: "v4" })
IsIPv4(s) ==
  LET parts == Split(s, ".")
  IN Len(parts) = 4 /\ \A i \in 1..4 : IsOctet(parts[i])

IsHexGroup(s) == Len(s) \in 1..4 /\ \A i \in 1..Len(s) : s[i] \in HexDigits

\* z.string().ip({ version: "v6" }): eight groups of hex digits, or fewer
\* around one "::"
IsIPv6(s) ==
  LET parts == Split(s, ":")
      empties == {i \in 1..Len(parts) : parts[i] = <<>>}
      inner == {i \in empties : 1 < i /\ i < Len(parts)}
  IN /\ \A i \in 1..Len(s) : s[i] \in HexDigits \cup {":"}
     /\ \A i \in 1..Len(parts) : parts[i] = <<>> \/ IsHexGroup(parts[i])
     /\ \/ Len(parts) = 8 /\ empties = {}
        \/ /\ Len(parts) \in 3..8
           /\ Cardinality(inner) = 1
           /\ (1 \in empties => 2 \in empties)
           /\ (Len(parts) \in empties => (Len(parts) - 1) \in empties)
           /\ Cardinality(empties) <= 3

---------------------------------------------------------------------------
(* The identity provider and the inputs the requests are drawn from *)

UidAdmin == <<"u", "i", "d", "-", "a", "d", "m", "i", "n", "1">>  \* "uid-admin1"
UidUser == <<"u", "i", "d", "-", "u", "s", "e", "r", "-", "2">>  \* "uid-user-2"
UidGhost == <<"n", "o", "n", "e", "x", "i", "s", "t", "e", "n", "t", "-", "u", "s", "e", "r", "-", "i", "d", "-", "0", "0", "0">>  \* "nonexistent-user-id-000": no Subject has it
UidShort == <<"u", "i", "d", "-", "s", "h", "o", "r", "t">>  \* "uid-short": 9 characters

TokAdmin == <<"a", "d", "m", "i", "n", ".", "t", "k", "-", "1">>  \* "admin.tk-1"
TokUser == <<"u", "s", "e", "r", "_", ".", "t", "k", "-", "2">>  \* "user_.tk-2"
\* "expired.tk": well formed, carries UidUser, no longer verifiable
TokExpired == <<"e", "x", "p", "i", "r", "e", "d", ".", "t", "k">>
TokShort == <<"a", "d", "m", "i", "n", ".", "t", "k", "-">>  \* "admin.tk-": 9 characters
TokLong == [i \in 1..(TokenMaxLen + 1) |-> "a"]
TokBadChar == <<"a", "d", "m", "i", "n", " ", "t", "k", "+", "1">>  \* "admin tk+1"

\* the uid claim a token carries
TokenUid(tok) ==
  IF tok = TokAdmin THEN UidAdmin
  ELSE IF tok \in {TokUser, TokExpired} THEN UidUser
  ELSE <<>>

ReasonOk == <<"s", "p", "a", "m", "1">>  \* "spam1"
ReasonShort == <<"b", "a", "d">>  \* "bad"
ReasonPadded == <<"a", "b", " ", " ", " ">>  \* "ab   ": 5 characters, 2 after trimming

Ip1 == <<"1", ".", "2", ".", "3", ".", "4">>  \* "1.2.3.4"
Ip2 == <<"5", ".", "6", ".", "7", ".", "8">>  \* "5.6.7.8"
Ip6 == <<":", ":", "1">>  \* "::1"
IpBad == <<"1", ".", "2", ".", "3", ".", "2", "5", "6">>  \* "1.2.3.256"

EmailUser == <<"u", "@", "x", ".", "i", "o">>  \* "u@x.io"

---------------------------------------------------------------------------
(* Request bodies, responses and thrown errors *)

\* req.body / req.headers: every field a handler or schema may read, and an
\* extra isAdmin field no schema declares
EmptyBody ==
  [idToken |-> <<>>, authorization |-> <<>>, userId |-> <<>>, reason |-> <<>>,
   duration |-> 0, ipAddress |-> <<>>, plan |-> "", validityDays |-> 0,
   email |-> <<>>, maxAccounts |-> 0, isAdmin |-> FALSE]

\* no ip_bans document read yet
NoDoc ==
  [id |-> 0, ipAddress |-> <<>>, reason |-> <<>>, bannedBy |-> <<>>,
   bannedAt |-> 0, expiresAt |-> <<>>]

\* what res.json / res.status(..).json may carry
NoResp ==
  [success |-> FALSE, error |-> "", message |-> "", id |-> 0,
   adminUid |-> <<>>, users |-> {}, banned |-> FALSE, reason |-> <<>>,
   expiresAt |-> <<>>, accountCount |-> 0, maxAccounts |-> 0,
   isLimitExceeded |-> FALSE, licenseKey |-> 0]

IdleReq ==
  [ep |-> "none", pc |-> "idle", body |-> EmptyBody, validated |-> EmptyBody,
   uid |-> <<>>, adminUid |-> <<>>, banDoc |-> NoDoc, status |-> 0,
   docId |-> 0, ts |-> 0, resp |-> NoResp, idpCalls |-> 0, storeCalls |-> 0,
   sent |-> 0]

ZodError == [kind |-> "ZodError", message |-> "ZodError"]
Error(msg) == [kind |-> "Error", message |-> msg]
NoError == [kind |-> "", message |-> ""]

\* z.string().min(10).max(3000).regex(/^[A-Za-z0-9_\-\.]+$/)
IsIdToken(s) ==
  /\ Len(s) >= TokenMinLen
  /\ Len(s) <= TokenMaxLen
  /\ \A i \in 1..Len(s) : s[i] \in TokenChars

\* z.string().min(10).max(100)
IsUserId(s) == Len(s) >= UserIdMinLen /\ Len(s) <= UserIdMaxLen

\* z.string().min(5).max(500).trim(): zod runs the checks in the order they
\* are chained, so both lengths are those of the untrimmed string
IsReason(s) == Len(s) >= ReasonMinLen /\ Len(s) <= ReasonMaxLen

\* z.number().int().min(1).max(36500)
IsDuration(n) == n >= DurationMin /\ n <= DurationMax

\* z.number().int().min(1).max(3650)
IsValidityDays(n) == n >= ValidityMin /\ n <= ValidityMax

\* z.string().ip({ version: "v4" }).or(z.string().ip({ version: "v6" }))
IsIpAddress(s) == IsIPv4(s) \/ IsIPv6(s)

Parsed(value) == [ok |-> TRUE, value |-> value, error |-> NoError]
Rejected(err) == [ok |-> FALSE, value |-> EmptyBody, error |-> err]

\* Schema.parse(req.body): the declared keys, unknown keys stripped
VerifyAdminSchema(body) ==
  IF IsIdToken(body.idToken)
  THEN Parsed([EmptyBody EXCEPT !.idToken = body.idToken])
  ELSE Rejected(ZodError)

BanUserSchema(body) ==
  IF /\ IsIdToken(body.idToken)
     /\ IsUserId(body.userId)
     /\ IsReason(body.reason)
     /\ IsDuration(body.duration)
  THEN Parsed([EmptyBody EXCEPT !.idToken = body.idToken,
                                !.userId = body.userId,
                                !.reason = Trim(body.reason),
                                !.duration = body.duration])
  ELSE Rejected(ZodError)

CreateLicenseSchema(body) ==
  IF /\ IsIdToken(body.idToken)
     /\ body.plan \in Plans
     /\ IsValidityDays(body.validityDays)
  THEN Parsed([EmptyBody EXCEPT !.idToken = body.idToken,
                                !.plan = body.plan,
                                !.validityDays = body.validityDays])
  ELSE Rejected(ZodError)

BanIPSchema(body) ==
  IF /\ IsIdToken(body.idToken)
     /\ IsIpAddress(body.ipAddress)
     /\ IsReason(body.reason)
     /\ IsDuration(body.duration)
  THEN Parsed([EmptyBody EXCEPT !.idToken = body.idToken,
                                !.ipAddress = body.ipAddress,
                                !.reason = Trim(body.reason),
                                !.duration = body.duration])
  ELSE Rejected(ZodError)

DeleteUserSchema(body) ==
  IF IsIdToken(body.idToken) /\ IsUserId(body.userId)
  THEN Parsed([EmptyBody EXCEPT !.idToken = body.idToken,
                                !.userId = body.userId])
  ELSE Rejected(ZodError)

\* handleGetAllUsers: the token comes from the Authorization header
BearerToken(body) ==
  IF ~StartsWith(body.authorization, Bearer)
  THEN Rejected(Error("Missing or invalid authorization header"))
  ELSE LET idToken == Trim(Slice(body.authorization, BearerLen))
       IN IF idToken = <<>> \/ Len(idToken) < TokenMinLen
                \/ Len(idToken) > TokenMaxLen
          THEN Rejected(Error("Invalid token format"))
          ELSE Parsed([EmptyBody EXCEPT !.idToken = idToken])

\* the synchronous prefix of each privileged handler
ParseRequest(ep, body) ==
  CASE ep = "verifyAdmin" -> VerifyAdminSchema(body)
    [] ep = "banUser" -> BanUserSchema(body)
    [] ep = "getAllUsers" -> BearerToken(body)
    [] ep = "createLicense" -> CreateLicenseSchema(body)
    [] ep = "banIP" -> BanIPSchema(body)
    [] ep = "deleteUser" -> DeleteUserSchema(body)

\* the catch block of ban-user without its "User not found" test
CatchStatusZodOnly(ep, err) ==
  CASE ep = "getAllUsers" -> 401
    [] OTHER -> IF err.kind = "ZodError" THEN 400 ELSE 401

\* the catch block of each privileged handler: the status
CatchStatus(ep, err) ==
  CASE ep = "banUser" ->
         IF err.kind = "ZodError" \/ err.message = "User not found"
         THEN 400 ELSE 401
    [] ep = "getAllUsers" -> 401
    [] OTHER -> IF err.kind = "ZodError" THEN 400 ELSE 401

\* the catch block of each privileged handler: the error label
CatchLabel(ep) ==
  CASE ep = "verifyAdmin" -> "Unauthorized"
    [] ep = "banUser" -> "Failed to ban user"
    [] ep = "getAllUsers" -> "Unauthorized"
    [] ep = "createLicense" -> "Failed to create license"
    [] ep = "banIP" -> "Failed to ban IP"
    [] ep = "deleteUser" -> "Failed to delete user"

\* auth.verifyIdToken: the identity provider, a trusted oracle
verifyIdToken(idToken) ==
  IF idToken \in {TokAdmin, TokUser}
  THEN [ok |-> TRUE, uid |-> TokenUid(idToken), error |-> NoError]
  ELSE [ok |-> FALSE, uid |-> <<>>, error |-> Error("Firebase ID token invalid")]

\* verifyAdmin with the privilege remembered from an earlier request's success
IsAdminDocCached(users, uid) ==
  \/ uid \in DOMAIN users /\ users[uid].isAdmin = <<TRUE>>
  \/ \E e \in BagToSet(auditLog) : e.adminUid = uid

\* verifyAdmin with a default-allow branch: only an explicit false is refused
IsAdminDocDefaultAllow(users, uid) ==
  uid \in DOMAIN users /\ users[uid].isAdmin # <<FALSE>>

\* verifyAdmin: userDoc.exists && userDoc.data()?.isAdmin
IsAdminDoc(users, uid) ==
  uid \in DOMAIN users /\ users[uid].isAdmin = <<TRUE>>

---------------------------------------------------------------------------
(* The store *)

Connections == {"c1", "c2"}

Collections == {"user_bans", "ip_bans", "licenses", "user_ips"}

MaxDocs(coll) ==
  CASE coll = "user_bans" -> MaxUserBans
    [] coll = "ip_bans" -> MaxIpBans
    [] coll = "licenses" -> MaxLicenses
    [] coll = "user_ips" -> MaxUserIps

\* collection.doc() / collection.add(): an auto-generated id, never handed
\* out twice; which id a document gets is not under the program's control
FreshIds(coll) == (1..MaxDocs(coll)) \ allocated[coll]

InitUsers ==
  (UidAdmin :> [email |-> <<>>, isAdmin |-> <<TRUE>>])
    @@ (UidUser :> [email |-> EmailUser, isAdmin |-> <<>>])

Init ==
  /\ db = [users |-> InitUsers, user_bans |-> {}, ip_bans |-> {},
           licenses |-> {}, user_ips |-> {}]
  /\ allocated = [c \in Collections |-> {}]
  /\ auditLog = EmptyBag
  /\ now = 0
  /\ req = [c \in Connections |-> IdleReq]

\* res.json(..) / res.status(..).json(..)
Reply(r, status, resp) ==
  [r EXCEPT !.pc = "done", !.status = status, !.resp = resp, !.sent = @ + 1]

\* catch (error) { res.status(status).json({ error, message }) }
Fail(r, err) ==
  Reply(r, CatchStatus(r.ep, err),
        [NoResp EXCEPT !.error = CatchLabel(r.ep), !.message = err.message])

\* ban-ip calling the operation without awaiting verifyAdmin first
AfterParseSkipsVerify(ep) == IF ep = "banIP" THEN "banIP" ELSE "verifyIdToken"

\* create-license calling the operation before verifyAdmin
AfterParseOperationFirst(ep) ==
  IF ep = "createLicense" THEN "createLicense" ELSE "verifyIdToken"

\* where a privileged handler goes once its input has parsed
AfterParse(ep) == "verifyIdToken"

\* where a privileged handler goes once verifyAdmin has returned
AfterVerifyAdmin(ep) == IF ep = "verifyAdmin" THEN "done" ELSE ep

\* the handler attributing the operation to the userId of the body
AdminArgFromBody(r) == r.validated.userId

\* the admin identifier a handler hands to the moderation operation
AdminArg(r) == r.adminUid

---------------------------------------------------------------------------
(* Privileged handlers *)

\* a privileged handler up to its first await: Schema.parse(req.body)
StartPrivileged(c, ep, body) ==
  /\ req[c].pc \in {"idle", "done"}
  /\ LET r == [IdleReq EXCEPT !.ep = ep, !.body = body]
         parsed == ParseRequest(ep, body)
     IN req' = [req EXCEPT ![c] =
                  IF parsed.ok
                  THEN [r EXCEPT !.pc = AfterParse(ep), !.validated = parsed.value]
                  ELSE Fail(r, parsed.error)]
  /\ UNCHANGED <<db, allocated, auditLog, now>>

handleVerifyAdmin(c, body) == StartPrivileged(c, "verifyAdmin", body)

handleBanUser(c, body) ==
  /\ FreshIds("user_bans") # {}
  /\ StartPrivileged(c, "banUser", body)

handleGetAllUsers(c, body) == StartPrivileged(c, "getAllUsers", body)

handleCreateLicense(c, body) ==
  /\ FreshIds("licenses") # {}
  /\ StartPrivileged(c, "createLicense", body)

handleBanIP(c, body) ==
  /\ FreshIds("ip_bans") # {}
  /\ StartPrivileged(c, "banIP", body)

handleDeleteUser(c, body) == StartPrivileged(c, "deleteUser", body)

\* verifyAdmin, first await: auth.verifyIdToken(idToken)
verifyAdminToken(c) ==
  /\ req[c].pc = "verifyIdToken"
  /\ LET r == [req[c] EXCEPT !.idpCalls = @ + 1]
         decoded == verifyIdToken(r.validated.idToken)
     IN req' = [req EXCEPT ![c] =
                  IF decoded.ok
                  THEN [r EXCEPT !.pc = "userDoc", !.uid = decoded.uid]
                  ELSE Fail(r, decoded.error)]
  /\ UNCHANGED <<db, allocated, auditLog, now>>

\* verifyAdmin, second await: the users document of the decoded uid, read from
\* the store, and the isAdmin check on it
verifyAdminUserDoc(c) ==
  /\ req[c].pc = "userDoc"
  /\ LET r == [req[c] EXCEPT !.storeCalls = @ + 1]
     IN req' = [req EXCEPT ![c] =
                  IF ~IsAdminDoc(db.users, r.uid)
                  THEN Fail(r, Error("Unauthorized: Not an admin"))
                  ELSE IF AfterVerifyAdmin(r.ep) = "done"
                  THEN Reply([r EXCEPT !.adminUid = r.uid], 200,
                             [NoResp EXCEPT !.success = TRUE, !.adminUid = r.uid])
                  ELSE [r EXCEPT !.pc = AfterVerifyAdmin(r.ep), !.adminUid = r.uid]]
  /\ UNCHANGED <<db, allocated, auditLog, now>>

AuditEntry(adminUid, action, target, reason) ==
  [adminUid |-> adminUid, action |-> action, target |-> target, reason |-> reason]

\* FirebaseAdminService.banUser(adminUid, userId, reason, duration)
banUser(c) ==
  /\ req[c].pc = "banUser"
  /\ LET r == [req[c] EXCEPT !.storeCalls = @ + 1]
         v == r.validated
     IN IF v.userId \notin DOMAIN db.users
        THEN /\ req' = [req EXCEPT ![c] = Fail(r, Error("User not found"))]
             /\ UNCHANGED <<db, allocated, auditLog>>
        ELSE \E id \in FreshIds("user_bans") :
               /\ db' = [db EXCEPT !.user_bans = @ \cup
                           {[id |-> id, userId |-> v.userId, reason |-> v.reason,
                             bannedBy |-> AdminArg(r), bannedAt |-> now,
                             expiresAt |-> <<now + v.duration>>]}]
               /\ allocated' = [allocated EXCEPT !.user_bans = @ \cup {id}]
               /\ auditLog' = auditLog (+) SetToBag({AuditEntry(AdminArg(r), "banned user", v.userId, v.reason)})
               /\ req' = [req EXCEPT ![c] =
                    Reply([r EXCEPT !.storeCalls = @ + 1], 200,
                          [NoResp EXCEPT !.success = TRUE, !.id = id])]
  /\ UNCHANGED now

\* FirebaseAdminService.banIP(adminUid, ipAddress, reason, duration)
banIP(c) ==
  /\ req[c].pc = "banIP"
  /\ LET r == [req[c] EXCEPT !.storeCalls = @ + 1]
         v == r.validated
     IN \E id \in FreshIds("ip_bans") :
          /\ db' = [db EXCEPT !.ip_bans = @ \cup
                      {[id |-> id, ipAddress |-> v.ipAddress, reason |-> v.reason,
                        bannedBy |-> AdminArg(r), bannedAt |-> now,
                        expiresAt |-> <<now + v.duration>>]}]
          /\ allocated' = [allocated EXCEPT !.ip_bans = @ \cup {id}]
          /\ auditLog' = auditLog (+) SetToBag({AuditEntry(AdminArg(r), "banned IP", v.ipAddress, v.reason)})
          /\ req' = [req EXCEPT ![c] =
               Reply(r, 200, [NoResp EXCEPT !.success = TRUE, !.id = id])]
  /\ UNCHANGED now

\* FirebaseAdminService.deleteUser(adminUid, userId)
deleteUser(c) ==
  /\ req[c].pc = "deleteUser"
  /\ LET r == [req[c] EXCEPT !.storeCalls = @ + 1]
         v == r.validated
     IN IF v.userId \notin DOMAIN db.users
        THEN /\ req' = [req EXCEPT ![c] = Fail(r, Error("User not found"))]
             /\ UNCHANGED <<db, auditLog>>
        ELSE /\ db' = [db EXCEPT !.users =
                         [u \in DOMAIN db.users \ {v.userId} |-> db.users[u]]]
             /\ auditLog' = auditLog (+) SetToBag({AuditEntry(AdminArg(r), "deleted user", v.userId, <<>>)})
             /\ req' = [req EXCEPT ![c] =
                  Reply([r EXCEPT !.storeCalls = @ + 1], 200,
                        [NoResp EXCEPT !.success = TRUE])]
  /\ UNCHANGED <<allocated, now>>

\* create-license handing a fixed plan to the operation
LicenseArgsFixedPlan(validated) ==
  [plan |-> "Free", validityDays |-> validated.validityDays]

\* the plan and validity handleCreateLicense hands to the operation
LicenseArgs(validated) ==
  [plan |-> validated.plan, validityDays |-> validated.validityDays]

\* FirebaseAdminService.createLicense(adminUid, plan, validityDays)
createLicense(c) ==
  /\ req[c].pc = "createLicense"
  /\ LET r == [req[c] EXCEPT !.storeCalls = @ + 1]
         v == LicenseArgs(r.validated)
     IN \E key \in FreshIds("licenses") :
          /\ db' = [db EXCEPT !.licenses = @ \cup
                      {[key |-> key, plan |-> v.plan,
                        validityDays |-> v.validityDays,
                        createdBy |-> AdminArg(r), createdAt |-> now,
                        expiresAt |-> <<now + v.validityDays>>]}]
          /\ allocated' = [allocated EXCEPT !.licenses = @ \cup {key}]
          /\ auditLog' = auditLog (+) SetToBag({AuditEntry(AdminArg(r), "created license", <<key>>, <<>>)})
          /\ req' = [req EXCEPT ![c] =
               Reply(r, 200, [NoResp EXCEPT !.success = TRUE, !.licenseKey = key])]
  /\ UNCHANGED now

\* FirebaseAdminService.getAllUsers()
getAllUsers(c) ==
  /\ req[c].pc = "getAllUsers"
  /\ LET r == [req[c] EXCEPT !.storeCalls = @ + 1]
     IN req' = [req EXCEPT ![c] =
          Reply(r, 200, [NoResp EXCEPT !.success = TRUE,
                                       !.users = DOMAIN db.users])]
  /\ UNCHANGED <<db, allocated, auditLog, now>>

\* the error of a store call that fails for lack of the store
StoreUnavailable == Error("UNAVAILABLE")

\* verifyAdmin: the read of the users document throws
userDocThrows(c) ==
  /\ req[c].pc = "userDoc"
  /\ req' = [req EXCEPT ![c] =
               Fail([req[c] EXCEPT !.storeCalls = @ + 1], StoreUnavailable)]
  /\ UNCHANGED <<db, allocated, auditLog, now>>

\* the FirebaseAdminService operation a handler awaits throws on its first
\* store call
operationThrows(c) ==
  /\ req[c].pc \in {"banUser", "banIP", "deleteUser", "createLicense", "getAllUsers"}
  /\ req' = [req EXCEPT ![c] =
               Fail([req[c] EXCEPT !.storeCalls = @ + 1], StoreUnavailable)]
  /\ UNCHANGED <<db, allocated, auditLog, now>>

---------------------------------------------------------------------------
(* Unauthenticated network-abuse handlers *)

\* the query without its where clause
QueryIpBansUnfiltered(ipBans, ipAddress) == ipBans

\* query(collection, where(field, "==", value)): the matching documents
QueryIpBans(ipBans, ipAddress) == {d \in ipBans : d.ipAddress = ipAddress}

QueryUserIpsByAddress(userIps, ipAddress) ==
  {d \in userIps : d.ipAddress = ipAddress}

QueryUserIpsByUser(userIps, userId) == {d \in userIps : d.userId = userId}

\* snapshot.docs[0]: a query without orderBy returns documents by ascending id
FirstDoc(docs) == CHOOSE d \in docs : \A e \in docs : d.id <= e.id

\* the expiry comparison the wrong way round
IsExpiredReversed(banData, date) ==
  banData.expiresAt # <<>> /\ date < banData.expiresAt[1]

\* the test of banData.expiresAt without the comparison with new Date()
IsExpiredIgnoresDate(banData, date) == banData.expiresAt # <<>>

\* new Date() > banData.expiresAt.toDate()
IsExpired(banData, date) ==
  banData.expiresAt # <<>> /\ date > banData.expiresAt[1]

\* the limit reached only once it is passed
IsLimitExceededStrict(accountCount, maxAccounts) == accountCount > maxAccounts

\* accountCount >= maxAccounts
IsLimitExceeded(accountCount, maxAccounts) == accountCount >= maxAccounts

\* a handler of this group going to its query without the required-field check
StartGuardNoCheck(c, ep, body, missing, message, first) ==
  /\ req[c].pc \in {"idle", "done"}
  /\ req' = [req EXCEPT ![c] =
               [IdleReq EXCEPT !.ep = ep, !.body = body, !.pc = first]]
  /\ UNCHANGED <<db, auditLog, now>>

\* a handler of this group up to its first await: the required-field check
StartGuard(c, ep, body, missing, message, first) ==
  /\ req[c].pc \in {"idle", "done"}
  /\ LET r == [IdleReq EXCEPT !.ep = ep, !.body = body]
     IN req' = [req EXCEPT ![c] =
                  IF missing
                  THEN Reply(r, 400, [NoResp EXCEPT !.error = message])
                  ELSE [r EXCEPT !.pc = first]]
  /\ UNCHANGED <<db, auditLog, now>>

handleCheckIPBan(c, body) ==
  /\ StartGuard(c, "checkIPBan", body, body.ipAddress = <<>>,
                "IP address required", "checkBanQuery")
  /\ UNCHANGED allocated

\* handleCheckIPBan without the return after res.json({ banned: false }):
\* snapshot.docs[0] is undefined, banDoc.data() throws and the catch block
\* sends a second response
checkBanQueryNoReturn(c) ==
  /\ req[c].pc = "checkBanQuery"
  /\ LET r == [req[c] EXCEPT !.storeCalls = @ + 1]
         docs == QueryIpBans(db.ip_bans, r.body.ipAddress)
     IN req' = [req EXCEPT ![c] =
                  IF docs = {}
                  THEN Reply(Reply(r, 200, NoResp), 500,
                             [NoResp EXCEPT !.error = "Failed to check IP ban"])
                  ELSE LET banDoc == FirstDoc(docs)
                       IN IF IsExpired(banDoc, now)
                          THEN [r EXCEPT !.pc = "checkBanDelete", !.banDoc = banDoc]
                          ELSE Reply([r EXCEPT !.banDoc = banDoc], 200,
                                     [NoResp EXCEPT !.banned = TRUE,
                                                    !.reason = banDoc.reason,
                                                    !.expiresAt = banDoc.expiresAt])]
  /\ UNCHANGED <<db, allocated, auditLog, now>>

\* handleCheckIPBan: await getDocs(q), then the expiry check
checkBanQuery(c) ==
  /\ req[c].pc = "checkBanQuery"
  /\ LET r == [req[c] EXCEPT !.storeCalls = @ + 1]
         docs == QueryIpBans(db.ip_bans, r.body.ipAddress)
     IN req' = [req EXCEPT ![c] =
                  IF docs = {}
                  THEN Reply(r, 200, NoResp)
                  ELSE LET banDoc == FirstDoc(docs)
                       IN IF IsExpired(banDoc, now)
                          THEN [r EXCEPT !.pc = "checkBanDelete", !.banDoc = banDoc]
                          ELSE Reply([r EXCEPT !.banDoc = banDoc], 200,
                                     [NoResp EXCEPT !.banned = TRUE,
                                                    !.reason = banDoc.reason,
                                                    !.expiresAt = banDoc.expiresAt])]
  /\ UNCHANGED <<db, allocated, auditLog, now>>

\* handleCheckIPBan deleting every document of the query, not only banDoc
checkBanDeleteAll(c) ==
  /\ req[c].pc = "checkBanDelete"
  /\ db' = [db EXCEPT !.ip_bans =
                {d \in @ : d.ipAddress # req[c].banDoc.ipAddress}]
  /\ req' = [req EXCEPT ![c] =
               Reply([req[c] EXCEPT !.storeCalls = @ + 1], 200, NoResp)]
  /\ UNCHANGED <<allocated, auditLog, now>>

\* handleCheckIPBan: await banDoc.ref.delete()
checkBanDelete(c) ==
  /\ req[c].pc = "checkBanDelete"
  /\ db' = [db EXCEPT !.ip_bans = {d \in @ : d.id # req[c].banDoc.id}]
  /\ req' = [req EXCEPT ![c] =
               Reply([req[c] EXCEPT !.storeCalls = @ + 1], 200, NoResp)]
  /\ UNCHANGED <<allocated, auditLog, now>>

handleCheckIPLimit(c, body) ==
  /\ StartGuard(c, "checkIPLimit", body,
                body.ipAddress = <<>> \/ body.maxAccounts = 0,
                "IP address and maxAccounts required", "checkLimitQuery")
  /\ UNCHANGED allocated

\* handleCheckIPLimit: await getDocs(q), then the comparison
checkLimitQuery(c) ==
  /\ req[c].pc = "checkLimitQuery"
  /\ LET r == [req[c] EXCEPT !.storeCalls = @ + 1]
         accountCount ==
           Cardinality(QueryUserIpsByAddress(db.user_ips, r.body.ipAddress))
     IN req' = [req EXCEPT ![c] =
          Reply(r, 200,
                [NoResp EXCEPT !.accountCount = accountCount,
                               !.maxAccounts = r.body.maxAccounts,
                               !.isLimitExceeded =
                                  IsLimitExceeded(accountCount, r.body.maxAccounts)])]
  /\ UNCHANGED <<db, allocated, auditLog, now>>

\* handleRecordUserIP up to its await: the document reference (its id) and
\* the timestamp are taken before the write is issued
handleRecordUserIP(c, body) ==
  /\ req[c].pc \in {"idle", "done"}
  /\ FreshIds("user_ips") # {}
  /\ LET r == [IdleReq EXCEPT !.ep = "recordUserIP", !.body = body]
     IN IF body.userId = <<>> \/ body.ipAddress = <<>>
        THEN /\ req' = [req EXCEPT ![c] =
                  Reply(r, 400, [NoResp EXCEPT !.error =
                                   "userId and ipAddress required"])]
             /\ UNCHANGED allocated
        ELSE \E id \in FreshIds("user_ips") :
               /\ req' = [req EXCEPT ![c] =
                    [r EXCEPT !.pc = "recordSet", !.docId = id, !.ts = now]]
               /\ allocated' = [allocated EXCEPT !.user_ips = @ \cup {id}]
  /\ UNCHANGED <<db, auditLog, now>>

\* handleRecordUserIP merging the whole body into the users document as well
recordSetSpreadsBody(c) ==
  /\ req[c].pc = "recordSet"
  /\ LET r == req[c]
     IN /\ db' = [db EXCEPT
                    !.user_ips = @ \cup
                      {[id |-> r.docId, userId |-> r.body.userId,
                        email |-> r.body.email, ipAddress |-> r.body.ipAddress,
                        recordedAt |-> r.ts, lastUsed |-> r.ts]},
                    !.users = [u \in DOMAIN @ |->
                                 IF u = r.body.userId
                                 THEN [@[u] EXCEPT !.isAdmin = <<r.body.isAdmin>>]
                                 ELSE @[u]]]
        /\ req' = [req EXCEPT ![c] =
             Reply([r EXCEPT !.storeCalls = @ + 1], 200,
                   [NoResp EXCEPT !.success = TRUE, !.id = r.docId])]
  /\ UNCHANGED <<allocated, auditLog, now>>

\* handleRecordUserIP: await ipDocRef.set({...})
recordSet(c) ==
  /\ req[c].pc = "recordSet"
  /\ LET r == req[c]
     IN /\ db' = [db EXCEPT !.user_ips = @ \cup
                    {[id |-> r.docId, userId |-> r.body.userId,
                      email |-> r.body.email, ipAddress |-> r.body.ipAddress,
                      recordedAt |-> r.ts, lastUsed |-> r.ts]}]
        /\ req' = [req EXCEPT ![c] =
             Reply([r EXCEPT !.storeCalls = @ + 1], 200,
                   [NoResp EXCEPT !.success = TRUE, !.id = r.docId])]
  /\ UNCHANGED <<allocated, auditLog, now>>

handleUpdateUserIPLogin(c, body) ==
  /\ \/ FreshIds("user_ips") # {}
     \/ \E d \in db.user_ips :
          d.userId = body.userId /\ d.ipAddress = body.ipAddress
  /\ StartGuard(c, "updateUserIPLogin", body,
                body.userId = <<>> \/ body.ipAddress = <<>>,
                "userId and ipAddress required", "updateQuery")
  /\ UNCHANGED allocated

\* handleUpdateUserIPLogin without the loop over snapshot.docs: found stays
\* false and a new record is set on every call
updateQueryNoLookup(c) ==
  /\ req[c].pc = "updateQuery"
  /\ LET r == [req[c] EXCEPT !.storeCalls = @ + 1, !.ts = now]
     IN \E id \in FreshIds("user_ips") :
          /\ req' = [req EXCEPT ![c] =
               [r EXCEPT !.pc = "updateSet", !.docId = id]]
          /\ allocated' = [allocated EXCEPT !.user_ips = @ \cup {id}]
  /\ UNCHANGED <<db, auditLog, now>>

\* handleUpdateUserIPLogin: await getDocs(q), then the loop up to the first
\* await in it, or to the await of the set
updateQuery(c) ==
  /\ req[c].pc = "updateQuery"
  /\ LET r == [req[c] EXCEPT !.storeCalls = @ + 1, !.ts = now]
         matching == {d \in QueryUserIpsByUser(db.user_ips, r.body.userId) :
                        d.ipAddress = r.body.ipAddress}
     IN IF matching # {}
        THEN /\ req' = [req EXCEPT ![c] =
                  [r EXCEPT !.pc = "updateLastUsed",
                            !.docId = FirstDoc(matching).id]]
             /\ UNCHANGED allocated
        ELSE \E id \in FreshIds("user_ips") :
               /\ req' = [req EXCEPT ![c] =
                    [r EXCEPT !.pc = "updateSet", !.docId = id]]
               /\ allocated' = [allocated EXCEPT !.user_ips = @ \cup {id}]
  /\ UNCHANGED <<db, auditLog, now>>

\* handleUpdateUserIPLogin: await doc.ref.update({ lastUsed })
updateLastUsed(c) ==
  /\ req[c].pc = "updateLastUsed"
  /\ LET r == req[c]
     IN /\ db' = [db EXCEPT !.user_ips =
                    {IF d.id = r.docId THEN [d EXCEPT !.lastUsed = r.ts] ELSE d :
                       d \in @}]
        /\ req' = [req EXCEPT ![c] =
             Reply([r EXCEPT !.storeCalls = @ + 1], 200,
                   [NoResp EXCEPT !.success = TRUE])]
  /\ UNCHANGED <<allocated, auditLog, now>>

\* handleUpdateUserIPLogin: await adminDB.collection("user_ips").doc().set({...})
updateSet(c) ==
  /\ req[c].pc = "updateSet"
  /\ LET r == req[c]
     IN /\ db' = [db EXCEPT !.user_ips = @ \cup
                    {[id |-> r.docId, userId |-> r.body.userId, email |-> <<>>,
                      ipAddress |-> r.body.ipAddress,
                      recordedAt |-> r.ts, lastUsed |-> r.ts]}]
        /\ req' = [req EXCEPT ![c] =
             Reply([r EXCEPT !.storeCalls = @ + 1], 200,
                   [NoResp EXCEPT !.success = TRUE])]
  /\ UNCHANGED <<allocated, auditLog, now>>

\* the catch block of each of these handlers: the error of its 500 response
GuardCatchLabel(ep) ==
  CASE ep = "checkIPBan" -> "Failed to check IP ban"
    [] ep = "checkIPLimit" -> "Failed to check IP limit"
    [] ep = "recordUserIP" -> "Failed to record IP"
    [] ep = "updateUserIPLogin" -> "Failed to update IP login"

\* the store call one of these handlers awaits throws: its catch block
guardStoreThrows(c) ==
  /\ req[c].pc \in {"checkBanQuery", "checkBanDelete", "checkLimitQuery",
                    "recordSet", "updateQuery", "updateLastUsed", "updateSet"}
  /\ req' = [req EXCEPT ![c] =
               Reply([req[c] EXCEPT !.storeCalls = @ + 1], 500,
                     [NoResp EXCEPT !.error = GuardCatchLabel(req[c].ep)])]
  /\ UNCHANGED <<db, allocated, auditLog, now>>

---------------------------------------------------------------------------
(* The environment *)

\* the Firebase console or a service-account script writing isAdmin
ConsoleSetAdmin(uid, flag) ==
  /\ uid \in DOMAIN db.users
  /\ db.users[uid].isAdmin # <<flag>>
  /\ db' = [db EXCEPT !.users[uid].isAdmin = <<flag>>]
  /\ UNCHANGED <<allocated, auditLog, now, req>>

\* time passes
Tick ==
  /\ now < MaxTime
  /\ now' = now + 1
  /\ UNCHANGED <<db, allocated, auditLog, req>>

---------------------------------------------------------------------------
(* The requests the model sends *)

Tokens == {TokAdmin, TokUser, TokExpired, TokShort, TokLong, TokBadChar}

WithToken(tok) == [EmptyBody EXCEPT !.idToken = tok]

VerifyAdminBodies == {WithToken(t) : t \in Tokens}

BanUserBody(tok, userId) ==
  [WithToken(tok) EXCEPT !.userId = userId, !.reason = ReasonOk, !.duration = 1]

BanUserBodies ==
  {BanUserBody(t, UidUser) : t \in Tokens}
    \cup {BanUserBody(TokAdmin, u) : u \in {UidAdmin, UidGhost, UidShort}}
    \cup {[BanUserBody(TokAdmin, UidUser) EXCEPT !.reason = x] :
            x \in {ReasonShort, ReasonPadded}}
    \cup {[BanUserBody(TokAdmin, UidUser) EXCEPT !.duration = n] :
            n \in {0, DurationMax + 1}}
    \cup {[BanUserBody(TokAdmin, UidUser) EXCEPT !.isAdmin = TRUE]}

GetAllUsersBodies ==
  {[EmptyBody EXCEPT !.authorization = Bearer \o t] : t \in Tokens}
    \cup {[EmptyBody EXCEPT !.authorization = TokAdmin],
          [EmptyBody EXCEPT !.authorization = Bearer \o TokAdmin \o <<" ">>]}

CreateLicenseBody(tok) ==
  [WithToken(tok) EXCEPT !.plan = "Pro", !.validityDays = 365]

CreateLicenseBodies ==
  {CreateLicenseBody(t) : t \in Tokens}
    \cup {[CreateLicenseBody(TokAdmin) EXCEPT !.plan = "Gold"]}
    \cup {[CreateLicenseBody(TokAdmin) EXCEPT !.validityDays = n] :
            n \in {0, ValidityMax + 1}}

BanIPBody(tok, ipAddress) ==
  [WithToken(tok) EXCEPT !.ipAddress = ipAddress, !.reason = ReasonOk,
                         !.duration = 1]

BanIPBodies ==
  {BanIPBody(t, Ip1) : t \in Tokens}
    \cup {BanIPBody(TokAdmin, a) : a \in {Ip6, IpBad}}
    \cup {[BanIPBody(TokAdmin, Ip1) EXCEPT !.reason = ReasonShort],
          [BanIPBody(TokAdmin, Ip1) EXCEPT !.duration = 0]}

DeleteUserBody(tok, userId) == [WithToken(tok) EXCEPT !.userId = userId]

DeleteUserBodies ==
  {DeleteUserBody(t, UidUser) : t \in Tokens}
    \cup {DeleteUserBody(TokAdmin, u) : u \in {UidAdmin, UidGhost, UidShort}}

---------------------------------------------------------------------------
(* Specifications *)

\* the privileged routes, one request at a time, and the console
PrivilegedStep(c) ==
  \/ \E body \in VerifyAdminBodies : handleVerifyAdmin(c, body)
  \/ \E body \in BanUserBodies : handleBanUser(c, body)
  \/ \E body \in GetAllUsersBodies : handleGetAllUsers(c, body)
  \/ \E body \in CreateLicenseBodies : handleCreateLicense(c, body)
  \/ \E body \in BanIPBodies : handleBanIP(c, body)
  \/ \E body \in DeleteUserBodies : handleDeleteUser(c, body)
  \/ verifyAdminToken(c)
  \/ verifyAdminUserDoc(c)
  \/ banUser(c)
  \/ banIP(c)
  \/ deleteUser(c)
  \/ createLicense(c)
  \/ getAllUsers(c)

\* an operator revokes the admin's privilege, or grants it back
Console == \E flag \in BOOLEAN : ConsoleSetAdmin(UidAdmin, flag)

Next == PrivilegedStep("c1") \/ Console

Spec == Init /\ [][Next]_vars

CheckIPBanBodies == {[EmptyBody EXCEPT !.ipAddress = a] : a \in {Ip1, Ip2, <<>>}}

\* ban-ip and check-ban on one address, and the clock
BanStep(c) ==
  \/ handleBanIP(c, BanIPBody(TokAdmin, Ip1))
  \/ verifyAdminToken(c)
  \/ verifyAdminUserDoc(c)
  \/ banIP(c)
  \/ \E body \in CheckIPBanBodies : handleCheckIPBan(c, body)
  \/ checkBanQuery(c)
  \/ checkBanDelete(c)

BanNext == BanStep("c1") \/ Tick

BanSpec == Init /\ [][BanNext]_vars

CheckIPLimitBodies ==
  {[EmptyBody EXCEPT !.ipAddress = Ip1, !.maxAccounts = n] : n \in {0, 1, 2}}
    \cup {[EmptyBody EXCEPT !.maxAccounts = 2]}

UserIPBody(userId, ipAddress) ==
  [EmptyBody EXCEPT !.userId = userId, !.ipAddress = ipAddress]

RecordUserIPBodies ==
  {[UserIPBody(UidUser, Ip1) EXCEPT !.email = EmailUser],
   UserIPBody(UidAdmin, Ip1), UserIPBody(UidUser, Ip2),
   UserIPBody(<<>>, Ip1), UserIPBody(UidUser, <<>>)}

UpdateUserIPLoginBodies ==
  {UserIPBody(UidUser, Ip1), UserIPBody(UidUser, Ip2),
   UserIPBody(<<>>, Ip1), UserIPBody(UidUser, <<>>)}

\* the address-usage routes, and the clock
UsageStep(c) ==
  \/ \E body \in CheckIPLimitBodies : handleCheckIPLimit(c, body)
  \/ checkLimitQuery(c)
  \/ \E body \in RecordUserIPBodies : handleRecordUserIP(c, body)
  \/ recordSet(c)
  \/ \E body \in UpdateUserIPLoginBodies : handleUpdateUserIPLogin(c, body)
  \/ updateQuery(c)
  \/ updateLastUsed(c)
  \/ updateSet(c)

UsageNext == UsageStep("c1") \/ Tick

UsageSpec == Init /\ [][UsageNext]_vars

\* a well-formed request to each route, carrying an extra isAdmin: true
Smuggled(body) == [body EXCEPT !.isAdmin = TRUE]

\* every caller-facing route, with requests that try to set isAdmin
AnyRouteStep(c) ==
  \/ handleVerifyAdmin(c, Smuggled(WithToken(TokUser)))
  \/ \E t \in {TokAdmin, TokUser} : handleBanUser(c, Smuggled(BanUserBody(t, UidUser)))
  \/ handleGetAllUsers(c, Smuggled([EmptyBody EXCEPT !.authorization = Bearer \o TokAdmin]))
  \/ \E t \in {TokAdmin, TokUser} : handleCreateLicense(c, Smuggled(CreateLicenseBody(t)))
  \/ \E t \in {TokAdmin, TokUser} : handleBanIP(c, Smuggled(BanIPBody(t, Ip1)))
  \/ \E t \in {TokAdmin, TokUser}, u \in {UidUser, UidGhost} :
       handleDeleteUser(c, Smuggled(DeleteUserBody(t, u)))
  \/ verifyAdminToken(c)
  \/ verifyAdminUserDoc(c)
  \/ banUser(c)
  \/ banIP(c)
  \/ deleteUser(c)
  \/ createLicense(c)
  \/ getAllUsers(c)
  \/ handleCheckIPBan(c, Smuggled([EmptyBody EXCEPT !.ipAddress = Ip1]))
  \/ checkBanQuery(c)
  \/ checkBanDelete(c)
  \/ handleCheckIPLimit(c, Smuggled([EmptyBody EXCEPT !.ipAddress = Ip1, !.maxAccounts = 1]))
  \/ checkLimitQuery(c)
  \/ \E u \in {UidUser, UidAdmin} : handleRecordUserIP(c, Smuggled(UserIPBody(u, Ip1)))
  \/ recordSet(c)
  \/ \E u \in {UidUser, UidAdmin} : handleUpdateUserIPLogin(c, Smuggled(UserIPBody(u, Ip1)))
  \/ updateQuery(c)
  \/ updateLastUsed(c)
  \/ updateSet(c)

AnyRouteNext == AnyRouteStep("c1")

\* the store on day MaxTime, after the admin banned Ip1 for one day on day 0
AnyRouteInit ==
  /\ db = [users |-> InitUsers, user_bans |-> {},
           ip_bans |-> {[id |-> 1, ipAddress |-> Ip1, reason |-> ReasonOk,
                         bannedBy |-> UidAdmin, bannedAt |-> 0,
                         expiresAt |-> <<1>>]},
           licenses |-> {}, user_ips |-> {}]
  /\ allocated = [c \in Collections |-> IF c = "ip_bans" THEN {1} ELSE {}]
  /\ auditLog = SetToBag({AuditEntry(UidAdmin, "banned IP", Ip1, ReasonOk)})
  /\ now = MaxTime
  /\ req = [c \in Connections |-> IdleReq]

AnyRouteSpec == AnyRouteInit /\ [][AnyRouteNext]_vars

\* two callers at the privilege gate of verify-admin and list-users
GateStep(c) ==
  \/ \E t \in {TokAdmin, TokUser, TokExpired} : handleVerifyAdmin(c, WithToken(t))
  \/ \E t \in {TokAdmin, TokUser, TokExpired} :
       handleGetAllUsers(c, [EmptyBody EXCEPT !.authorization = Bearer \o t])
  \/ verifyAdminToken(c)
  \/ verifyAdminUserDoc(c)
  \/ getAllUsers(c)

GateNext == (\E c \in Connections : GateStep(c)) \/ Console

GateSpec == Init /\ [][GateNext]_vars

\* the admin's requests against a store that may be unavailable
FaultStep(c) ==
  \/ handleBanUser(c, BanUserBody(TokAdmin, UidUser))
  \/ handleCreateLicense(c, CreateLicenseBody(TokAdmin))
  \/ \E a \in {Ip1, Ip6} : handleBanIP(c, BanIPBody(TokAdmin, a))
  \/ \E u \in {UidUser, UidGhost} : handleDeleteUser(c, DeleteUserBody(TokAdmin, u))
  \/ handleGetAllUsers(c, [EmptyBody EXCEPT !.authorization = Bearer \o TokAdmin])
  \/ verifyAdminToken(c)
  \/ verifyAdminUserDoc(c)
  \/ userDocThrows(c)
  \/ banUser(c)
  \/ banIP(c)
  \/ deleteUser(c)
  \/ createLicense(c)
  \/ getAllUsers(c)
  \/ operationThrows(c)

FaultNext == FaultStep("c1")

FaultSpec == Init /\ [][FaultNext]_vars

\* a step that starts a request on every route: well-formed bodies, a body
\* each kind of validation refuses, and a token the provider refuses
ResponseStart(c) ==
  \/ \E body \in {Smuggled(WithToken(TokShort)), WithToken(TokExpired)} :
       handleVerifyAdmin(c, body)
  \/ handleBanUser(c, BanUserBody(TokAdmin, UidGhost))
  \/ handleGetAllUsers(c, [EmptyBody EXCEPT !.authorization = TokAdmin])
  \/ handleCreateLicense(c, [CreateLicenseBody(TokAdmin) EXCEPT !.plan = "Gold"])
  \/ handleBanIP(c, BanIPBody(TokAdmin, IpBad))
  \/ handleDeleteUser(c, DeleteUserBody(TokAdmin, UidShort))
  \/ handleCheckIPBan(c, EmptyBody)
  \/ handleCheckIPLimit(c, [EmptyBody EXCEPT !.ipAddress = Ip1])
  \/ handleRecordUserIP(c, UserIPBody(<<>>, Ip1))
  \/ handleUpdateUserIPLogin(c, UserIPBody(UidUser, <<>>))

\* an awaited call of a request in progress returns or throws
Continue(c) ==
  \/ verifyAdminToken(c)
  \/ verifyAdminUserDoc(c)
  \/ userDocThrows(c)
  \/ banUser(c)
  \/ banIP(c)
  \/ deleteUser(c)
  \/ createLicense(c)
  \/ getAllUsers(c)
  \/ operationThrows(c)
  \/ checkBanQuery(c)
  \/ checkBanDelete(c)
  \/ checkLimitQuery(c)
  \/ recordSet(c)
  \/ updateQuery(c)
  \/ updateLastUsed(c)
  \/ updateSet(c)
  \/ guardStoreThrows(c)

ResponseNext == AnyRouteStep("c1") \/ ResponseStart("c1") \/ Continue("c1")

\* every route and every way a request can end; an awaited call eventually
\* returns or throws
ResponseSpec ==
  AnyRouteInit /\ [][ResponseNext]_vars /\ WF_vars(Continue("c1"))

\* update-IP-login called by two clients whose requests may interleave
LoginStep(c) ==
  \/ \E a \in {Ip1, Ip2} : handleUpdateUserIPLogin(c, UserIPBody(UidUser, a))
  \/ updateQuery(c)
  \/ updateLastUsed(c)
  \/ updateSet(c)

LoginNext == \E c \in Connections : LoginStep(c)

LoginSpec == Init /\ [][LoginNext]_vars

\* ban-ip and check-ban called by two clients whose requests may
\* interleave, and the clock
RaceNext == (\E c \in Connections : BanStep(c)) \/ Tick

RaceSpec == Init /\ [][RaceNext]_vars

\* the store holding one ip_bans document for Ip1 without expiresAt (the
\* field is optional in IPBan), written by a maintainer; its id is any id
PermanentInit ==
  /\ \E id \in 1..MaxIpBans :
       /\ db = [users |-> InitUsers, user_bans |-> {},
                ip_bans |-> {[id |-> id, ipAddress |-> Ip1, reason |-> ReasonOk,
                              bannedBy |-> UidAdmin, bannedAt |-> 0,
                              expiresAt |-> <<>>]},
                licenses |-> {}, user_ips |-> {}]
       /\ allocated = [c \in Collections |-> IF c = "ip_bans" THEN {id} ELSE {}]
  /\ auditLog = EmptyBag
  /\ now = 0
  /\ req = [c \in Connections |-> IdleReq]

\* ban-ip and check-ban on an address that is banned without expiry
PermanentSpec == PermanentInit /\ [][BanNext]_vars

\* the four unauthenticated routes, with bodies that lack a required field
GuardStep(c) ==
  \/ \E body \in CheckIPBanBodies : handleCheckIPBan(c, body)
  \/ checkBanQuery(c)
  \/ checkBanDelete(c)
  \/ \E body \in CheckIPLimitBodies : handleCheckIPLimit(c, body)
  \/ checkLimitQuery(c)
  \/ \E body \in RecordUserIPBodies : handleRecordUserIP(c, body)
  \/ recordSet(c)
  \/ \E body \in UpdateUserIPLoginBodies \cup {UserIPBody(<<>>, <<>>)} :
       handleUpdateUserIPLogin(c, body)
  \/ updateQuery(c)
  \/ updateLastUsed(c)
  \/ updateSet(c)

GuardNext == GuardStep("c1")

GuardSpec == AnyRouteInit /\ [][GuardNext]_vars

---------------------------------------------------------------------------
(* Claims about the privileged routes *)

ModerationEps == {"banUser", "banIP", "deleteUser", "createLicense", "getAllUsers"}

\* a step changed a collection, handed out an id or wrote an audit line
StoreChanged == db' # db \/ allocated' # allocated \/ auditLog' # auditLog

\* the audit lines a step added
NewAuditEntries ==
  {e \in BagToSet(auditLog') : CopiesIn(e, auditLog') > CopiesIn(e, auditLog)}

\* C1: on every privileged endpoint the moderation operation runs only in a
\* request whose verifyAdmin has returned an admin uid, and a request that
\* ends in validation or in verifyAdmin ends 400/401 with the store unchanged.
C1_OperationOnlyAfterVerifyAdmin ==
  [][\A c \in Connections :
       (req'[c] # req[c] /\ req'[c].ep \in ModerationEps) =>
         /\ req'[c].pc \in ModerationEps =>
              /\ req'[c].pc = req'[c].ep
              /\ req'[c].adminUid # <<>>
              /\ req'[c].idpCalls = 1
         /\ StoreChanged =>
              /\ req[c].pc = req[c].ep
              /\ req[c].adminUid # <<>>
         /\ (req'[c].pc = "done" /\ req[c].pc \notin ModerationEps) =>
              /\ ~StoreChanged
              /\ req'[c].status \in {400, 401}
              /\ ~req'[c].resp.success]_vars

\* a request refused by verifyAdmin, after every moderation operation has
\* been performed by verified requests
C1_Witness ==
  /\ db.user_bans # {}
  /\ db.ip_bans # {}
  /\ db.licenses # {}
  /\ UidUser \notin DOMAIN db.users
  /\ req["c1"].ep = "banIP"
  /\ req["c1"].pc = "done"
  /\ req["c1"].status = 401

\* C2 (as amended): verifyAdmin never returns an admin uid unless the users
\* document of the token's uid exists with isAdmin true; when the token
\* verifies and the document is missing or its flag is false or absent it
\* fails with the not-admin error, and when the token does not verify it
\* fails with the identity provider's error without reading the store.
C2_VerifyAdminFailsClosed ==
  [][\A c \in Connections :
       (req'[c] # req[c]) =>
         /\ (req[c].pc = "verifyIdToken"
               /\ req[c].validated.idToken \notin {TokAdmin, TokUser}) =>
              /\ req'[c].pc = "done"
              /\ req'[c].status = 401
              /\ req'[c].resp.message = "Firebase ID token invalid"
              /\ req'[c].adminUid = <<>>
              /\ req'[c].resp.adminUid = <<>>
              /\ req'[c].storeCalls = 0
         /\ (req[c].pc = "userDoc"
               /\ ~(req[c].uid \in DOMAIN db.users
                      /\ db.users[req[c].uid].isAdmin = <<TRUE>>)) =>
              /\ req'[c].pc = "done"
              /\ req'[c].status = 401
              /\ req'[c].resp.message = "Unauthorized: Not an admin"
              /\ req'[c].adminUid = <<>>
              /\ req'[c].resp.adminUid = <<>>
         /\ (req[c].adminUid = <<>> /\ req'[c].adminUid # <<>>) =>
              /\ req[c].pc = "userDoc"
              /\ req'[c].adminUid = TokenUid(req'[c].validated.idToken)
              /\ req'[c].adminUid \in DOMAIN db.users
              /\ db.users[req'[c].adminUid].isAdmin = <<TRUE>>]_vars

\* verifyAdmin has refused a verified token whose Subject has no isAdmin
\* field, and the admin's flag has been set to false
C2_Witness ==
  /\ req["c1"].pc = "done"
  /\ req["c1"].validated.idToken = TokUser
  /\ req["c1"].uid = UidUser
  /\ UidUser \in DOMAIN db.users
  /\ db.users[UidUser].isAdmin = <<>>
  /\ req["c1"].resp.message = "Unauthorized: Not an admin"
  /\ UidAdmin \in DOMAIN db.users
  /\ db.users[UidAdmin].isAdmin = <<FALSE>>

\* C2 as stated: whatever the token's validity, a verifyAdmin call for a
\* token whose Subject is not an admin ends with the not-admin error.
C2_Original ==
  [][\A c \in Connections :
       (req'[c] # req[c] /\ req[c].pc \in {"verifyIdToken", "userDoc"}
          /\ ~(TokenUid(req[c].validated.idToken) \in DOMAIN db.users
                 /\ db.users[TokenUid(req[c].validated.idToken)].isAdmin = <<TRUE>>)
          /\ req'[c].pc = "done") =>
         /\ req'[c].adminUid = <<>>
         /\ req'[c].resp.message = "Unauthorized: Not an admin"]_vars

\* C3: a privileged request whose verifyAdmin reads the users document while
\* the Subject's flag is not true (revoked, or the document deleted) ends 401
\* there and changes nothing, whatever the Subject did successfully before.
C3_PrivilegeReadFresh ==
  [][\A c \in Connections :
       (req'[c] # req[c] /\ req[c].pc = "userDoc"
          /\ ~(req[c].uid \in DOMAIN db.users
                 /\ db.users[req[c].uid].isAdmin = <<TRUE>>)) =>
         /\ req'[c].pc = "done"
         /\ req'[c].status = 401
         /\ ~req'[c].resp.success
         /\ ~StoreChanged]_vars

\* the admin has banned and deleted, was then revoked, and a later ban-ip with
\* the same token is refused
C3_Witness ==
  /\ \E e \in BagToSet(auditLog) : e.adminUid = UidAdmin
  /\ UidAdmin \in DOMAIN db.users
  /\ db.users[UidAdmin].isAdmin = <<FALSE>>
  /\ req["c1"].ep = "banIP"
  /\ req["c1"].validated.idToken = TokAdmin
  /\ req["c1"].pc = "done"
  /\ req["c1"].status = 401
  /\ req["c1"].resp.message = "Unauthorized: Not an admin"

\* the token a privileged request presents
PresentedToken(r) ==
  IF r.ep = "getAllUsers"
  THEN Trim(Slice(r.body.authorization, BearerLen))
  ELSE r.body.idToken

\* C4: on every privileged endpoint a token outside the charset or the
\* length bounds is rejected before the identity provider or the store is
\* called.
C4_MalformedTokenRejectedFirst ==
  \A c \in Connections :
    (req[c].ep \in ModerationEps \cup {"verifyAdmin"}
       /\ ~IsIdToken(PresentedToken(req[c]))) =>
      /\ req[c].pc = "done"
      /\ req[c].idpCalls = 0
      /\ req[c].storeCalls = 0

\* C5: every ban record, license and audit line a request produces names the
\* uid verifyAdmin returned for the request's token.
C5_AttributedToVerifiedAdmin ==
  [][\A c \in Connections :
       (req'[c] # req[c]) =>
         /\ \A d \in (db'.user_bans \ db.user_bans) \cup (db'.ip_bans \ db.ip_bans) :
              d.bannedBy = TokenUid(req[c].body.idToken)
         /\ \A d \in db'.licenses \ db.licenses :
              d.createdBy = TokenUid(req[c].body.idToken)
         /\ \A e \in NewAuditEntries :
              e.adminUid = TokenUid(req[c].body.idToken)]_vars

\* two delete-user requests with the admin's token and different userId
\* fields, both attributed to the admin, beside a ban of another Subject
C5_Witness ==
  /\ \E d \in db.user_bans : d.userId = UidUser /\ d.bannedBy = UidAdmin
  /\ \E e1, e2 \in BagToSet(auditLog) :
       /\ e1.action = "deleted user" /\ e2.action = "deleted user"
       /\ e1.target = UidUser /\ e2.target = UidAdmin
       /\ e1.adminUid = UidAdmin /\ e2.adminUid = UidAdmin

---------------------------------------------------------------------------
(* Claims about every route *)

\* C6: no step of any request, privileged or unauthenticated, with or
\* without an extra isAdmin field in its body, changes the isAdmin flag of a
\* Subject that exists after it.
C6_NoRouteWritesIsAdmin ==
  [][\A c \in Connections :
       (req'[c] # req[c]) =>
         \A u \in DOMAIN db'.users :
           /\ u \in DOMAIN db.users
           /\ db'.users[u].isAdmin = db.users[u].isAdmin]_vars

\* record-IP and ban-user requests carrying isAdmin: true have succeeded and
\* the Subject they name still has no isAdmin flag
C6_Witness ==
  /\ req["c1"].ep = "recordUserIP"
  /\ req["c1"].pc = "done"
  /\ req["c1"].status = 200
  /\ req["c1"].body.isAdmin
  /\ req["c1"].body.userId = UidUser
  /\ \E d \in db.user_bans : d.userId = UidUser
  /\ UidUser \in DOMAIN db.users
  /\ db.users[UidUser].isAdmin = <<>>

---------------------------------------------------------------------------
(* Claims about check-ban *)

\* the Ban Records of an address
BansOf(ipAddress) == {d \in db.ip_bans : d.ipAddress = ipAddress}

\* C7: when the Ban Record check-ban finds for the address has expiresAt
\* earlier than now (in particular when every record of the address has), the
\* call deletes that record and answers banned: false.
C7_ExpiredBanDeleted ==
  [][\A c \in Connections :
       (req'[c] # req[c] /\ req'[c].ep = "checkIPBan") =>
         LET bans == BansOf(req[c].body.ipAddress)
             first == CHOOSE d \in bans : \A e \in bans : d.id <= e.id
         IN /\ (req[c].pc = "checkBanQuery" /\ bans # {}
                  /\ first.expiresAt # <<>> /\ first.expiresAt[1] < now) =>
                 /\ req'[c].pc = "checkBanDelete"
                 /\ req'[c].banDoc = first
                 /\ req'[c].sent = 0
            /\ (req[c].pc = "checkBanQuery" /\ bans # {}
                  /\ \A d \in bans : d.expiresAt # <<>> /\ d.expiresAt[1] < now) =>
                 req'[c].pc = "checkBanDelete"
            /\ (req[c].pc = "checkBanDelete") =>
                 /\ req[c].banDoc.expiresAt # <<>>
                 /\ req[c].banDoc.expiresAt[1] < now
                 /\ req'[c].pc = "done"
                 /\ req'[c].status = 200
                 /\ ~req'[c].resp.banned
                 /\ \A d \in db'.ip_bans : d.id # req[c].banDoc.id
                 /\ db'.ip_bans \subseteq db.ip_bans]_vars

\* check-ban has answered banned: false for an address whose only record had
\* expired, and the record is gone
C7_Witness ==
  /\ req["c1"].ep = "checkIPBan"
  /\ req["c1"].pc = "done"
  /\ req["c1"].banDoc.id # 0
  /\ req["c1"].banDoc.ipAddress = Ip1
  /\ req["c1"].banDoc.expiresAt = <<1>>
  /\ ~req["c1"].resp.banned
  /\ now = 2
  /\ db.ip_bans = {}

\* C8: whenever some Ban Record of the address has expiresAt in the future,
\* also when the address has several records, check-ban answers banned: true
\* and every record of the address that is unexpired still exists afterwards.
C8_UnexpiredBanReported ==
  [][\A c \in Connections :
       (req'[c] # req[c] /\ req'[c].ep = "checkIPBan"
          /\ req[c].pc \in {"checkBanQuery", "checkBanDelete"}
          /\ \E d \in BansOf(req[c].body.ipAddress) :
               d.expiresAt # <<>> /\ d.expiresAt[1] > now) =>
         /\ req'[c].pc = "done" => req'[c].resp.banned
         /\ \A d \in BansOf(req[c].body.ipAddress) :
              (d.expiresAt # <<>> /\ d.expiresAt[1] > now) => d \in db'.ip_bans]_vars

\* C9: check-ban on an address that has no Ban Record answers banned: false
\* and no step of it changes a collection.
C9_NoBanNoChange ==
  [][\A c \in Connections :
       (req'[c] # req[c] /\ req'[c].ep = "checkIPBan"
          /\ req'[c].body.ipAddress # <<>>
          /\ BansOf(req'[c].body.ipAddress) = {}) =>
         /\ db' = db
         /\ allocated' = allocated
         /\ auditLog' = auditLog
         /\ req[c].pc = "checkBanQuery" =>
              /\ req'[c].pc = "done"
              /\ req'[c].status = 200
              /\ ~req'[c].resp.banned
              /\ req'[c].resp.reason = <<>>]_vars

\* check-ban has answered banned: false for Ip2, which was never banned,
\* while Ip1 is banned
C9_Witness ==
  /\ req["c1"].ep = "checkIPBan"
  /\ req["c1"].pc = "done"
  /\ req["c1"].body.ipAddress = Ip2
  /\ req["c1"].status = 200
  /\ ~req["c1"].resp.banned
  /\ BansOf(Ip1) # {}
  /\ BansOf(Ip2) = {}

---------------------------------------------------------------------------
(* Claims about the address-usage routes *)

\* C10: check-limit answers with the number of user_ips documents of the
\* address and with isLimitExceeded = (count >= maxAccounts), false at
\* maxAccounts - 1 and true at maxAccounts, and writes nothing.
C10_LimitCountsRecords ==
  [][\A c \in Connections :
       (req'[c] # req[c] /\ req'[c].ep = "checkIPLimit") =>
         /\ db' = db /\ allocated' = allocated /\ auditLog' = auditLog
         /\ req[c].pc = "checkLimitQuery" =>
              LET count == Cardinality({d \in db.user_ips :
                                          d.ipAddress = req[c].body.ipAddress})
                  max == req[c].body.maxAccounts
              IN /\ req'[c].pc = "done"
                 /\ req'[c].status = 200
                 /\ req'[c].resp.accountCount = count
                 /\ req'[c].resp.maxAccounts = max
                 /\ req'[c].resp.isLimitExceeded <=> (count >= max)
                 /\ (count + 1 = max) => ~req'[c].resp.isLimitExceeded
                 /\ (count = max) => req'[c].resp.isLimitExceeded]_vars

\* check-limit has answered isLimitExceeded: true with exactly maxAccounts
\* records of the address in the store
C10_Witness ==
  /\ req["c1"].ep = "checkIPLimit"
  /\ req["c1"].pc = "done"
  /\ req["c1"].status = 200
  /\ req["c1"].resp.maxAccounts = 2
  /\ req["c1"].resp.accountCount = 2
  /\ req["c1"].resp.isLimitExceeded
  /\ Cardinality({d \in db.user_ips : d.ipAddress = Ip1}) = 2

\* the Address-Usage Records linking a userId to an address
UsageOf(userIps, userId, ipAddress) ==
  {d \in userIps : d.userId = userId /\ d.ipAddress = ipAddress}

\* C11: recording an address use is an idempotent upsert: when a call for a
\* (userId, address) pair has answered, exactly one Address-Usage Record links
\* the pair, and if one linked it before the call, its recordedAt is
\* unchanged and its lastUsed is the time of this call.
C11_RecordIsIdempotentUpsert ==
  [][\A c \in Connections :
       (req'[c] # req[c] /\ req'[c].ep \in {"recordUserIP", "updateUserIPLogin"}
          /\ req'[c].pc = "done" /\ req'[c].status = 200) =>
         LET before == UsageOf(db.user_ips, req[c].body.userId, req[c].body.ipAddress)
             after == UsageOf(db'.user_ips, req[c].body.userId, req[c].body.ipAddress)
         IN /\ Cardinality(after) = 1
            /\ before # {} =>
                 \A d \in after :
                   /\ \E e \in before : d.id = e.id /\ d.recordedAt = e.recordedAt
                   /\ d.lastUsed = req[c].ts]_vars

---------------------------------------------------------------------------
(* Claims about failures of the privileged routes *)

\* C12: ban-user by a verified admin on a userId no Subject has ends with the
\* "User not found" error and status 400, and creates no Ban Record: the step
\* leaves every collection, the id pool and the audit log as they were.
C12_BanUserTargetNotFound ==
  [][\A c \in Connections :
       (req'[c] # req[c] /\ req[c].pc = "banUser"
          /\ req[c].validated.userId \notin DOMAIN db.users) =>
         /\ req[c].adminUid # <<>>
         /\ req'[c].pc = "done"
         /\ req'[c].status = 400
         /\ ~req'[c].resp.success
         /\ req'[c].resp.message = "User not found"
         /\ db' = db
         /\ allocated' = allocated
         /\ auditLog' = auditLog]_vars

\* the admin's ban of "nonexistent-user-id-000" has been answered 400 and no
\* user ban exists
C12_Witness ==
  /\ req["c1"].ep = "banUser"
  /\ req["c1"].pc = "done"
  /\ req["c1"].adminUid = UidAdmin
  /\ req["c1"].validated.userId = UidGhost
  /\ req["c1"].status = 400
  /\ req["c1"].resp.message = "User not found"
  /\ db.user_bans = {}

\* the errors of verifyAdmin
AuthMessages == {"Firebase ID token invalid", "Unauthorized: Not an admin"}

\* C13: every moderation endpoint answers 400 to a body its schema refuses,
\* 401 to a token or authorization failure, and 400 to a target that does not
\* exist, delete-user of a nonexistent userId included.
C13_UniformStatusMapping ==
  \A c \in Connections :
    (req[c].pc = "done" /\ req[c].ep \in ModerationEps \cup {"verifyAdmin"}
       /\ ~req[c].resp.success) =>
      /\ (req[c].ep # "getAllUsers" /\ req[c].idpCalls = 0) => req[c].status = 400
      /\ req[c].resp.message \in AuthMessages => req[c].status = 401
      /\ req[c].resp.message = "User not found" => req[c].status = 400

\* the request ended inside verifyAdmin: the identity provider was asked and
\* no admin identifier came back
FailedAtGate(r) == r.pc = "done" /\ r.idpCalls > 0 /\ r.adminUid = <<>>

\* C14: two requests to the same privileged endpoint that both fail in
\* verifyAdmin, one because the token does not verify and one because the
\* verified Subject is not an admin, get the same status and the same body.
C14_GateFailuresIndistinguishable ==
  \A c, d \in Connections :
    (FailedAtGate(req[c]) /\ FailedAtGate(req[d]) /\ req[c].ep = req[d].ep) =>
      /\ req[c].status = req[d].status
      /\ req[c].resp = req[d].resp

\* C15: a privileged request in which a store call fails with
\* StoreUnavailable is answered with a 5xx status, not 400 or 401, and the
\* failing step changes nothing in the store.
C15_StoreFailureIsServerError ==
  [][\A c \in Connections :
       (req'[c] # req[c] /\ req'[c].pc = "done"
          /\ req'[c].resp.message = StoreUnavailable.message) =>
         /\ req'[c].status >= 500
         /\ req'[c].status <= 599
         /\ db' = db
         /\ allocated' = allocated
         /\ auditLog' = auditLog]_vars

---------------------------------------------------------------------------
(* Claims about the audit log *)

AuditedEps == {"banUser", "banIP", "deleteUser", "createLicense"}

\* what the audit line of a successful request names as its target
AuditTarget(r) ==
  CASE r.ep = "banUser" -> r.validated.userId
    [] r.ep = "deleteUser" -> r.validated.userId
    [] r.ep = "banIP" -> r.validated.ipAddress
    [] r.ep = "createLicense" -> <<r.resp.licenseKey>>

\* the ban, ban-ip, create-license and delete-user operations that succeeded
SucceededOperations ==
  Cardinality(allocated.user_bans) + Cardinality(allocated.ip_bans)
    + Cardinality(allocated.licenses)
    + Cardinality(DOMAIN InitUsers \ DOMAIN db.users)

\* C16: the audit log holds as many entries as ban-user, ban-ip, delete-user
\* and create-license operations have succeeded; the step that completes one
\* with success appends exactly one entry, naming the verified admin and the
\* target, and every other step, a failing request's included, appends none.
C16_OneAuditEntryPerSuccess ==
  /\ [](BagCardinality(auditLog) = SucceededOperations)
  /\ [][\A c \in Connections :
          (req'[c] # req[c]) =>
            IF /\ req'[c].pc = "done" /\ req'[c].resp.success
               /\ req'[c].ep \in AuditedEps
            THEN /\ BagCardinality(auditLog') = BagCardinality(auditLog) + 1
                 /\ req[c].adminUid # <<>>
                 /\ req[c].adminUid = TokenUid(req[c].validated.idToken)
                 /\ \A e \in NewAuditEntries :
                      /\ e.adminUid = req[c].adminUid
                      /\ e.target = AuditTarget(req'[c])
            ELSE auditLog' = auditLog]_vars

\* four operations have succeeded, four entries are in the log, and the
\* last request, refused with 401, added none
C16_Witness ==
  /\ BagCardinality(auditLog) = 4
  /\ SucceededOperations = 4
  /\ req["c1"].pc = "done"
  /\ req["c1"].ep \in AuditedEps
  /\ req["c1"].status = 401

---------------------------------------------------------------------------
(* Claims about write ownership *)

GuardEps == {"checkIPBan", "checkIPLimit", "recordUserIP", "updateUserIPLogin"}

\* C17 as amended: a step of an unauthenticated endpoint leaves Subjects,
\* licenses, user bans and the audit log as they were and creates or updates
\* no Ban Record; the one write it makes outside user_ips is check-ban
\* deleting the expired Ban Record it read. A Ban Record is created only by a
\* request to which verifyAdmin returned an admin identifier.
C17_WriteOwnership ==
  [][\A c \in Connections :
       (req'[c] # req[c]) =>
         /\ req'[c].ep \in GuardEps =>
              /\ db'.users = db.users
              /\ db'.licenses = db.licenses
              /\ db'.user_bans = db.user_bans
              /\ auditLog' = auditLog
              /\ db'.ip_bans \subseteq db.ip_bans
              /\ db'.ip_bans # db.ip_bans =>
                   /\ req'[c].ep = "checkIPBan"
                   /\ db.ip_bans \ db'.ip_bans = {req[c].banDoc}
                   /\ req[c].banDoc.expiresAt # <<>>
                   /\ req[c].banDoc.expiresAt[1] < now
         /\ (~(db'.ip_bans \subseteq db.ip_bans)
               \/ ~(db'.user_bans \subseteq db.user_bans)) =>
              /\ req[c].ep \in {"banIP", "banUser"}
              /\ req[c].adminUid # <<>>
              /\ req[c].adminUid = TokenUid(req[c].validated.idToken)]_vars

\* the unauthenticated endpoints have written a usage record and deleted the
\* expired Ban Record 1; the only Ban Record left is one the admin created
C17_Witness ==
  /\ req["c1"].ep = "checkIPBan"
  /\ req["c1"].pc = "done"
  /\ req["c1"].resp.banned
  /\ db.user_ips # {}
  /\ db.ip_bans # {}
  /\ \A d \in db.ip_bans : d.id # 1 /\ d.bannedBy = UidAdmin
  /\ 1 \in allocated.ip_bans

\* C17 as stated: no step of an unauthenticated endpoint modifies Ban
\* Records, licenses or Subject records.
C17_Original ==
  [][\A c \in Connections :
       (req'[c] # req[c] /\ req'[c].ep \in GuardEps) =>
         /\ db'.users = db.users
         /\ db'.licenses = db.licenses
         /\ db'.user_bans = db.user_bans
         /\ db'.ip_bans = db.ip_bans]_vars

---------------------------------------------------------------------------
(* Claims about the reason field *)

\* C18: a ban-user or ban-ip request whose reason, once leading and trailing
\* whitespace is stripped, is shorter than 5 or longer than 500 characters is
\* refused with status 400 at validation, and no ban with such a reason is
\* ever stored.
C18_ReasonTrimmedBeforeCheck ==
  /\ \A c \in Connections :
       (/\ req[c].ep \in {"banUser", "banIP"}
        /\ \/ Len(Trim(req[c].body.reason)) < ReasonMinLen
           \/ Len(Trim(req[c].body.reason)) > ReasonMaxLen) =>
         /\ req[c].pc = "done"
         /\ req[c].status = 400
         /\ req[c].idpCalls = 0
  /\ \A d \in db.user_bans \cup db.ip_bans :
       Len(d.reason) >= ReasonMinLen /\ Len(d.reason) <= ReasonMaxLen

---------------------------------------------------------------------------
(* Claims about licenses *)

\* C19: a response carries a license key only when it answers a create-license
\* request of a verified admin; the key was never issued before, so no later
\* response repeats it and two calls never return the same key; and the
\* license stored under it has the plan and the validity of the request.
C19_LicenseKeyReturnedOnce ==
  /\ []({d.key : d \in db.licenses} = allocated.licenses)
  /\ [](\A d, e \in db.licenses : d.key = e.key => d = e)
  /\ [][\A c \in Connections :
          (req'[c] # req[c] /\ req'[c].pc = "done"
             /\ req'[c].resp.licenseKey # 0) =>
            /\ req[c].ep = "createLicense"
            /\ req[c].adminUid # <<>>
            /\ req'[c].resp.licenseKey \notin allocated.licenses
            /\ \E d \in db'.licenses \ db.licenses :
                 /\ db'.licenses = db.licenses \cup {d}
                 /\ d.key = req'[c].resp.licenseKey
                 /\ d.plan = req[c].body.plan
                 /\ d.validityDays = req[c].body.validityDays]_vars

\* the second create-license call has returned a key; two licenses with
\* different keys are stored, the new one with the requested plan and validity
C19_Witness ==
  /\ req["c1"].ep = "createLicense"
  /\ req["c1"].pc = "done"
  /\ req["c1"].resp.licenseKey # 0
  /\ Cardinality(db.licenses) = 2
  /\ Cardinality({d.key : d \in db.licenses}) = 2
  /\ \E d \in db.licenses :
       /\ d.key = req["c1"].resp.licenseKey
       /\ d.plan = "Pro"
       /\ d.validityDays = 365

---------------------------------------------------------------------------
(* Claims about responses *)

\* C20: a request in progress has sent no response, a finished one has sent
\* exactly one, whichever way it ended (success, early 400, validation
\* failure, thrown verification or store error), and every request that has
\* started finishes, given that each awaited call returns or throws.
C20_ExactlyOneResponse ==
  /\ [](\A c \in Connections :
          /\ req[c].pc = "done" => (req[c].sent = 1 /\ req[c].status # 0)
          /\ req[c].pc # "done" => req[c].sent = 0)
  /\ \A c \in Connections :
       (req[c].pc \notin {"idle", "done"}) ~> (req[c].pc = "done")

\* update-IP-login has ended in its catch block with the one response 500
C20_Witness ==
  /\ req["c1"].ep = "updateUserIPLogin"
  /\ req["c1"].pc = "done"
  /\ req["c1"].status = 500
  /\ req["c1"].storeCalls = 2
  /\ req["c1"].sent = 1

---------------------------------------------------------------------------
(* Claims about concurrent requests *)

\* two requests are in progress at once
Overlap == \A c \in Connections : req[c].pc \notin {"idle", "done"}

\* C21: as long as no two update-IP-login calls are in progress at once, the
\* store holds at most one Address-Usage Record per (userId, address) pair.
\* (That interleaved first-use calls can leave two is the witness.)
C21_DuplicatesOnlyWhenInterleaved ==
  [](~Overlap) =>
    [](\A d, e \in db.user_ips :
         (d.userId = e.userId /\ d.ipAddress = e.ipAddress) => d = e)

\* two first-use calls for (UidUser, Ip1), each having scanned before the
\* other wrote, have both answered and left two records for the pair
C21_Witness ==
  /\ \A c \in Connections :
       /\ req[c].ep = "updateUserIPLogin"
       /\ req[c].pc = "done"
       /\ req[c].status = 200
       /\ req[c].body.ipAddress = Ip1
       /\ req[c].storeCalls = 2
  /\ req["c1"].docId # req["c2"].docId
  /\ Cardinality(UsageOf(db.user_ips, UidUser, Ip1)) = 2

\* C22: whatever the interleaving of check-ban and ban-ip calls, a step
\* removes at most one Ban Record, namely the record a check-ban call read,
\* whose expiresAt is earlier than the current time; every other record,
\* a ban created while that call was in progress included, stays.
C22_OnlyExpiredBanDeleted ==
  [][\A d \in db.ip_bans \ db'.ip_bans :
       /\ db.ip_bans \ db'.ip_bans = {d}
       /\ d.expiresAt # <<>>
       /\ d.expiresAt[1] < now
       /\ \E c \in Connections :
            /\ req[c].pc = "checkBanDelete"
            /\ req[c].banDoc = d
            /\ req'[c].pc = "done"]_vars

\* check-ban on c1 has deleted the expired record it read, and the ban that
\* ban-ip on c2 created for the same address is in the store, unexpired
C22_Witness ==
  /\ req["c1"].ep = "checkIPBan"
  /\ req["c1"].pc = "done"
  /\ ~req["c1"].resp.banned
  /\ req["c1"].banDoc.id # 0
  /\ req["c1"].banDoc \notin db.ip_bans
  /\ req["c2"].ep = "banIP"
  /\ req["c2"].pc = "done"
  /\ req["c2"].resp.success
  /\ \E d \in db.ip_bans :
       /\ d.id = req["c2"].resp.id
       /\ d.ipAddress = req["c1"].banDoc.ipAddress
       /\ d.expiresAt[1] > now

---------------------------------------------------------------------------
(* Claims about bans without expiry *)

---------------------------------------------------------------------------
(* Claims about required fields *)

\* a required field of the route is absent, empty or 0
LacksRequiredField(ep, body) ==
  CASE ep = "checkIPBan" -> body.ipAddress = <<>>
    [] ep = "checkIPLimit" -> body.ipAddress = <<>> \/ body.maxAccounts = 0
    [] ep \in {"recordUserIP", "updateUserIPLogin"} ->
         body.userId = <<>> \/ body.ipAddress = <<>>

\* C24: a request to an unauthenticated route that lacks a required field is
\* answered 400 in the step that receives it, before any store call, and the
\* store (collections and handed-out ids) is as before.
C24_MissingFieldRejectedFirst ==
  [][\A c \in Connections :
       (req'[c] # req[c] /\ req[c].pc \in {"idle", "done"}
          /\ req'[c].ep \in GuardEps
          /\ LacksRequiredField(req'[c].ep, req'[c].body)) =>
         /\ req'[c].pc = "done"
         /\ req'[c].status = 400
         /\ req'[c].sent = 1
         /\ req'[c].storeCalls = 0
         /\ db' = db
         /\ allocated' = allocated
         /\ auditLog' = auditLog]_vars

\* check-limit with maxAccounts 0 has been answered 400 without a store call,
\* with usage records of the address in the store
C24_Witness ==
  /\ req["c1"].ep = "checkIPLimit"
  /\ req["c1"].pc = "done"
  /\ req["c1"].body.ipAddress = Ip1
  /\ req["c1"].body.maxAccounts = 0
  /\ req["c1"].status = 400
  /\ req["c1"].storeCalls = 0
  /\ \E d \in db.user_ips : d.ipAddress = Ip1

====
